---- MODULE Spec2Model ----
(***************************************************************************)
(* Cloudlet placement: the problem model (evaluate, random_solution,       *)
(* repair_solution) of src/src/problem.py and the hybrid firefly / PSO     *)
(* optimizer of src/src/hybrid_ff_pso.py.                                  *)
(*                                                                         *)
(* Numbers.  Distances, radii, demands, capacities and costs are integers  *)
(* on a grid; Eps, the tolerance 1e-9 of evaluate, is one grid step, so a  *)
(* value one step above a bound is "within tolerance" and a value two      *)
(* steps above is beyond it.  Floating-point rounding is not modelled.     *)
(* Vectors keep the source's 0-based indices: place_loc is a function on   *)
(* 0..P-1, assign_dev a function on 0..E-1, type t is stored as t+1.       *)
(***************************************************************************)
EXTENDS Integers, Sequences, FiniteSets

VARIABLES
    \* CloudletProblem fields (problem.py 19-32)
    P, E, T, dist, cloudlet_types, demands, placement_cost,
    \* one call of a ProblemModel function: its arguments and what it returned
    arg_place, arg_assign, ret_place, ret_assign, ret_metrics, call,
    \* HybridFFPSO fields and the locals of run() (hybrid_ff_pso.py 46-61, 174-222)
    pop_size, max_iter, population, global_best, global_best_score, archive,
    evals, sorted_idx, it, i, ii, jj, best_history, pc,
    \* history: the metrics passed to nondominated_archive_update, and how many calls
    offered, calls,
    \* history: the (i, j) of the firefly_move calls of the current generation, in order
    moves

vars == <<P, E, T, dist, cloudlet_types, demands, placement_cost,
          arg_place, arg_assign, ret_place, ret_assign, ret_metrics, call,
          pop_size, max_iter, population, global_best, global_best_score, archive,
          evals, sorted_idx, it, i, ii, jj, best_history, pc, offered, calls, moves>>

problemVars == <<P, E, T, dist, cloudlet_types, demands, placement_cost>>
callVars == <<arg_place, arg_assign, ret_place, ret_assign, ret_metrics, call>>
optVars == <<pop_size, max_iter, population, global_best, global_best_score, archive,
             evals, sorted_idx, it, i, ii, jj, best_history, pc, offered, calls, moves>>

-----------------------------------------------------------------------------
(* Bounds of the instances and inputs that Init and the actions enumerate. *)
MaxP == 2
MaxE == 2
MaxT == 2
MaxDist == 3
MaxR == 2
MaxDem == 3
MaxCap == 2
MaxObj == 2
MaxCalls == 4
MaxPop == 2
MaxIter == 2

(* Program constants. *)
Eps == 1
CoveragePenalty == 100000
UnplacedPenalty == 1000000
OveragePenalty == 10000
OutOfRangeLatency == 1000000
PenaltyCoeff == 1000000
WCost10 == 4
WLat10 == 6
RepairPasses == 3

\* Python's None, as a record so that it compares with a solution
None == [none |-> TRUE]

-----------------------------------------------------------------------------
(* Generic helpers. *)
Max(a, b) == IF a >= b THEN a ELSE b

RECURSIVE SumOver(_, _)
SumOver(f, S) ==
    IF S = {} THEN 0
    ELSE LET x == CHOOSE y \in S : TRUE IN f[x] + SumOver(f, S \ {x})

SeqRange(s) == {s[k] : k \in 1..Len(s)}

\* the elements of the integer set S as an ascending list
RECURSIVE Ascending(_)
Ascending(S) ==
    IF S = {} THEN <<>>
    ELSE LET m == CHOOSE x \in S : \A y \in S : x <= y
         IN <<m>> \o Ascending(S \ {m})

\* list.sort(key=...): stable, ascending by key[x]
RECURSIVE InsertByKey(_, _, _)
InsertByKey(x, s, key) ==
    IF s = <<>> THEN <<x>>
    ELSE IF key[x] < key[Head(s)] THEN <<x>> \o s
    ELSE <<Head(s)>> \o InsertByKey(x, Tail(s), key)

RECURSIVE SortByKey(_, _)
SortByKey(s, key) ==
    IF s = <<>> THEN <<>>
    ELSE InsertByKey(s[Len(s)], SortByKey(SubSeq(s, 1, Len(s) - 1), key), key)

-----------------------------------------------------------------------------
(* CloudletProblem.evaluate *)

\* 10 * fitness as an exact integer in two limbs of base Limb (hi, lo)
Limb == 1000 * 1000 * 1000

Fitness10(cost, lat, penalty) ==
    LET step == Limb \div (10 * PenaltyCoeff)
        low  == (penalty % step) * (10 * PenaltyCoeff) + WCost10 * cost + WLat10 * lat
    IN <<(penalty \div step) + (low \div Limb), low % Limb>>

FitnessLess(a, b) == a[1] < b[1] \/ (a[1] = b[1] /\ a[2] < b[2])

inf == <<Limb, 0>>

PlacementTotal(place_loc) ==
    LET c == [p \in 0..P-1 |->
                 IF place_loc[p] > 0 THEN placement_cost[place_loc[p] - 1][p] ELSE 0]
    IN SumOver(c, 0..P-1)

Latency(assign_dev) ==
    LET l == [e \in 0..E-1 |->
                 IF assign_dev[e] < 0 \/ assign_dev[e] >= P
                 THEN OutOfRangeLatency ELSE dist[e][assign_dev[e]]]
    IN SumOver(l, 0..E-1)

CoveragePenaltyOf(place_loc, assign_dev) ==
    LET pen == [e \in 0..E-1 |->
                   LET p == assign_dev[e] IN
                   IF p < 0 \/ p >= P THEN CoveragePenalty
                   ELSE IF place_loc[p] = 0 THEN CoveragePenalty
                   ELSE IF dist[e][p] > cloudlet_types[place_loc[p] - 1].R + Eps
                        THEN CoveragePenalty ELSE 0]
    IN SumOver(pen, 0..E-1)

\* cpu_used / mem_used / sto_used: aggregated demand of the devices assigned to p
Used(assign_dev, p, res) ==
    LET d == [e \in 0..E-1 |-> IF assign_dev[e] = p THEN demands[e][res] ELSE 0]
    IN SumOver(d, 0..E-1)

\* faulty variant: demand aggregated at an unplaced location is not penalised
CapacityPenaltyOf_SkipUnplaced(place_loc, assign_dev) ==
    LET over(p, res, capname) ==
            LET u == Used(assign_dev, p, res)
                cap == cloudlet_types[place_loc[p] - 1][capname]
            IN IF u > cap + Eps THEN (u - cap) * OveragePenalty ELSE 0
        pen == [p \in 0..P-1 |->
                   IF place_loc[p] = 0 THEN 0
                   ELSE over(p, "cpu", "CPU") + over(p, "mem", "MEM") + over(p, "sto", "STO")]
    IN SumOver(pen, 0..P-1)

CapacityPenaltyOf(place_loc, assign_dev) ==
    LET over(p, res, capname) ==
            LET u == Used(assign_dev, p, res)
                cap == cloudlet_types[place_loc[p] - 1][capname]
            IN IF u > cap + Eps THEN (u - cap) * OveragePenalty ELSE 0
        pen == [p \in 0..P-1 |->
                   IF place_loc[p] = 0
                   THEN IF Used(assign_dev, p, "cpu") > 0 \/ Used(assign_dev, p, "mem") > 0
                           \/ Used(assign_dev, p, "sto") > 0
                        THEN UnplacedPenalty ELSE 0
                   ELSE over(p, "cpu", "CPU") + over(p, "mem", "MEM") + over(p, "sto", "STO")]
    IN SumOver(pen, 0..P-1)

Evaluate(place_loc, assign_dev) ==
    LET cost == PlacementTotal(place_loc)
        lat  == Latency(assign_dev)
        pen  == CoveragePenaltyOf(place_loc, assign_dev) + CapacityPenaltyOf(place_loc, assign_dev)
    IN [placement_cost |-> cost, latency |-> lat, penalty |-> pen,
        fitness |-> Fitness10(cost, lat, pen)]

-----------------------------------------------------------------------------
(* CloudletProblem.random_solution and repair_solution *)

\* int(np.argmin(self.dist[e, :])): the first location at minimal distance
ArgMin(e) ==
    CHOOSE p \in 0..P-1 :
        /\ \A q \in 0..P-1 : dist[e][p] <= dist[e][q]
        /\ \A q \in 0..p-1 : dist[e][q] > dist[e][p]

\* locations whose placed type covers device e by radius (no tolerance), ascending
Covering(place_loc, e) ==
    Ascending({p \in 0..P-1 :
                  place_loc[p] > 0 /\ dist[e][p] <= cloudlet_types[place_loc[p] - 1].R})

\* every (place_loc, assign_dev) that random_solution() can return
RandomSolutions ==
    LET max_active == Max(1, P \div 4)
        places == {pl \in [0..P-1 -> 0..T] :
                      Cardinality({p \in 0..P-1 : pl[p] > 0}) \in 1..max_active}
        assigns(pl) == {as \in [0..E-1 -> 0..P-1] :
                           \A e \in 0..E-1 :
                               IF Covering(pl, e) = <<>>
                               THEN as[e] = ArgMin(e)
                               ELSE as[e] \in SeqRange(Covering(pl, e))}
    IN UNION {{[place_loc |-> pl, assign_dev |-> as] : as \in assigns(pl)} : pl \in places}

\* faulty variant: the radius test is strict
FirstCoveringType_Strict(d) ==
    IF \E t \in 0..T-1 : d < cloudlet_types[t].R
    THEN CHOOSE t \in 0..T-1 :
             /\ d < cloudlet_types[t].R
             /\ \A u \in 0..t-1 : d >= cloudlet_types[u].R
    ELSE T

\* the first cloudlet type, in catalog order, whose radius covers distance d; T if none
FirstCoveringType(d) ==
    IF \E t \in 0..T-1 : d <= cloudlet_types[t].R
    THEN CHOOSE t \in 0..T-1 :
             /\ d <= cloudlet_types[t].R
             /\ \A u \in 0..t-1 : d > cloudlet_types[u].R
    ELSE T

\* faulty variant: the uncovered fallback stores the nearest location 1-based
FixAssignment_OneBased(e, st) ==
    LET p == st.assign_dev[e] IN
    IF p < 0 \/ p >= P \/ p \notin SeqRange(st.feasible[e])
    THEN IF Len(st.feasible[e]) > 0
         THEN {[st EXCEPT !.assign_dev[e] = f] : f \in SeqRange(st.feasible[e])}
         ELSE LET near_p == ArgMin(e)
                  chosen == FirstCoveringType(dist[e][near_p])
              IN IF chosen < T
                 THEN {[st EXCEPT !.place_loc[near_p] = chosen + 1,
                                  !.assign_dev[e] = near_p,
                                  !.feasible[e] = Append(@, near_p)]}
                 ELSE {[st EXCEPT !.assign_dev[e] = near_p + 1]}
    ELSE {st}

\* one iteration of the "fix assignments" loop, for device e; st = [place_loc, assign_dev, feasible]
FixAssignment(e, st) ==
    LET p == st.assign_dev[e] IN
    IF p < 0 \/ p >= P \/ p \notin SeqRange(st.feasible[e])
    THEN IF Len(st.feasible[e]) > 0
         THEN {[st EXCEPT !.assign_dev[e] = f] : f \in SeqRange(st.feasible[e])}
         ELSE LET near_p == ArgMin(e)
                  chosen == FirstCoveringType(dist[e][near_p])
              IN IF chosen < T
                 THEN {[st EXCEPT !.place_loc[near_p] = chosen + 1,
                                  !.assign_dev[e] = near_p,
                                  !.feasible[e] = Append(@, near_p)]}
                 ELSE {[st EXCEPT !.assign_dev[e] = near_p]}
    ELSE {st}

RECURSIVE FixAssignmentsFrom(_, _)
FixAssignmentsFrom(e, st) ==
    IF e >= E THEN {st}
    ELSE UNION {FixAssignmentsFrom(e + 1, s2) : s2 \in FixAssignment(e, st)}

CapacityOf(place_loc, p) ==
    LET t == cloudlet_types[place_loc[p] - 1]
    IN [cpu |-> t.CPU, mem |-> t.MEM, sto |-> t.STO]

UsedAll(assign_dev) ==
    [p \in 0..P-1 |-> [cpu |-> Used(assign_dev, p, "cpu"),
                       mem |-> Used(assign_dev, p, "mem"),
                       sto |-> Used(assign_dev, p, "sto")]]

\* the inner "for e in assigned_devices" loop at overloaded location p;
\* s = [assign_dev, used, moved]
RECURSIVE MoveDevices(_, _, _, _, _)
MoveDevices(devs, s, p, cap, feasible) ==
    IF devs = <<>> THEN s
    ELSE LET e   == Head(devs)
             alt == SelectSeq(feasible[e], LAMBDA pp : pp # p)
         IN IF Len(alt) = 0 THEN MoveDevices(Tail(devs), s, p, cap, feasible)
            ELSE LET newp == SortByKey(alt, dist[e])[1]
                     d    == demands[e]
                     u1   == [s.used EXCEPT ![p] = [cpu |-> @.cpu - d.cpu,
                                                    mem |-> @.mem - d.mem,
                                                    sto |-> @.sto - d.sto]]
                     u2   == [u1 EXCEPT ![newp] = [cpu |-> @.cpu + d.cpu,
                                                   mem |-> @.mem + d.mem,
                                                   sto |-> @.sto + d.sto]]
                     s2   == [assign_dev |-> [s.assign_dev EXCEPT ![e] = newp],
                              used |-> u2, moved |-> TRUE]
                 IN IF u2[p].cpu <= cap.cpu /\ u2[p].mem <= cap.mem /\ u2[p].sto <= cap.sto
                    THEN s2
                    ELSE MoveDevices(Tail(devs), s2, p, cap, feasible)

\* the "for p in range(self.P)" loop of one pass
RECURSIVE RelieveFrom(_, _, _, _)
RelieveFrom(p, s, place_loc, feasible) ==
    IF p >= P THEN s
    ELSE IF place_loc[p] = 0 THEN RelieveFrom(p + 1, s, place_loc, feasible)
    ELSE LET cap == CapacityOf(place_loc, p)
             u   == s.used[p]
         IN IF u.cpu - cap.cpu > 0 \/ u.mem - cap.mem > 0 \/ u.sto - cap.sto > 0
            THEN LET heavy == [e \in 0..E-1 |->
                                  0 - (demands[e].cpu + demands[e].mem + demands[e].sto)]
                     assigned_devices ==
                         SortByKey(Ascending({e \in 0..E-1 : s.assign_dev[e] = p}), heavy)
                 IN RelieveFrom(p + 1, MoveDevices(assigned_devices, s, p, cap, feasible),
                                place_loc, feasible)
            ELSE RelieveFrom(p + 1, s, place_loc, feasible)

\* "for _ in range(3)": k passes left
RECURSIVE CapacityFix(_, _, _, _)
CapacityFix(k, assign_dev, place_loc, feasible) ==
    IF k = 0 THEN assign_dev
    ELSE LET s == RelieveFrom(0, [assign_dev |-> assign_dev, used |-> UsedAll(assign_dev),
                                  moved |-> FALSE], place_loc, feasible)
         IN IF ~s.moved THEN s.assign_dev
            ELSE CapacityFix(k - 1, s.assign_dev, place_loc, feasible)

\* every (place_loc, assign_dev) that repair_solution(place_loc, assign_dev) can return
RepairSolutions(place_loc, assign_dev) ==
    LET st0 == [place_loc |-> place_loc, assign_dev |-> assign_dev,
                feasible |-> [e \in 0..E-1 |-> Covering(place_loc, e)]]
    IN {[place_loc |-> st.place_loc,
         assign_dev |-> CapacityFix(RepairPasses, st.assign_dev, st.place_loc, st.feasible)] :
            st \in FixAssignmentsFrom(0, st0)}

-----------------------------------------------------------------------------
(* Instances.  Two families: one varies the geometry (distances, radii) with  *)
(* ample capacity, the other varies demands and capacities with every device  *)
(* in reach of every type.                                                    *)

Triples(lo, hi, rest) ==
    {<<v, rest, rest>> : v \in lo..hi} \cup {<<rest, v, rest>> : v \in lo..hi}
        \cup {<<rest, rest, v>> : v \in lo..hi}

CloudletType(cap, r) == [CPU |-> cap[1], MEM |-> cap[2], STO |-> cap[3], R |-> r]
Demand(d) == [cpu |-> d[1], mem |-> d[2], sto |-> d[3]]

\* placement_cost[c, p]: a base cost per type with a small variation per location
CostTable(nT, nP) == [t \in 0..nT-1 |-> [p \in 0..nP-1 |-> 3 * (t + 1) + p]]

AmpleCap == MaxE * MaxDem + 1

GeometryInstance(nP, nE, nT) ==
    /\ dist \in [0..nE-1 -> [0..nP-1 -> 1..MaxDist]]
    /\ \E r \in [0..nT-1 -> 1..MaxR] :
           cloudlet_types = [t \in 0..nT-1 |->
                                CloudletType(<<AmpleCap, AmpleCap, AmpleCap>>, r[t])]
    /\ demands = [e \in 0..nE-1 |-> Demand(<<1, 1, 1>>)]

CapacityInstance(nP, nE, nT) ==
    /\ dist = [e \in 0..nE-1 |-> [p \in 0..nP-1 |-> 1]]
    /\ \E c \in [0..nT-1 -> Triples(1, MaxCap, MaxCap)] :
           cloudlet_types = [t \in 0..nT-1 |-> CloudletType(c[t], 1)]
    /\ \E d \in [0..nE-1 -> Triples(1, MaxDem, 1) \cup {<<0, 0, 0>>}] :
           demands = [e \in 0..nE-1 |-> Demand(d[e])]

\* CloudletProblem.__init__ on an instance of nP locations, nE devices, nT types
ProblemInit(nP, nE, nT) ==
    /\ P = nP /\ E = nE /\ T = nT
    /\ placement_cost = CostTable(nT, nP)
    /\ GeometryInstance(nP, nE, nT) \/ CapacityInstance(nP, nE, nT)

NoCall ==
    /\ arg_place = <<>> /\ arg_assign = <<>>
    /\ ret_place = <<>> /\ ret_assign = <<>> /\ ret_metrics = None
    /\ call = "none"

NoOptimizer ==
    /\ pop_size = 0 /\ max_iter = 0 /\ population = <<>>
    /\ global_best = None /\ global_best_score = inf /\ archive = <<>>
    /\ evals = <<>> /\ sorted_idx = <<>> /\ it = 0 /\ i = 0 /\ ii = 0 /\ jj = 0
    /\ best_history = <<>> /\ pc = "none"
    /\ offered = {} /\ calls = 0 /\ moves = <<>>

-----------------------------------------------------------------------------
(* SpecProblem: one call of evaluate or repair_solution on any input.       *)

InitProblem ==
    /\ \E nP \in 1..MaxP, nE \in 1..MaxE, nT \in 1..MaxT : ProblemInit(nP, nE, nT)
    /\ arg_place \in [0..P-1 -> 0..T]
    /\ arg_assign \in [0..E-1 -> -1..P]
    /\ ret_place = <<>> /\ ret_assign = <<>> /\ ret_metrics = None
    /\ call = "none"
    /\ NoOptimizer

CallEvaluate ==
    /\ call = "none"
    /\ ret_metrics' = Evaluate(arg_place, arg_assign)
    /\ call' = "evaluate"
    /\ UNCHANGED <<arg_place, arg_assign, ret_place, ret_assign>>
    /\ UNCHANGED problemVars /\ UNCHANGED optVars

CallRepair ==
    /\ call = "none"
    /\ \E r \in RepairSolutions(arg_place, arg_assign) :
           /\ ret_place' = r.place_loc
           /\ ret_assign' = r.assign_dev
    /\ call' = "repair_solution"
    /\ UNCHANGED <<arg_place, arg_assign, ret_metrics>>
    /\ UNCHANGED problemVars /\ UNCHANGED optVars

NextProblem == CallEvaluate \/ CallRepair

SpecProblem == InitProblem /\ [][NextProblem]_vars

-----------------------------------------------------------------------------
(* Properties of evaluate and repair_solution, checked under SpecProblem.   *)

InRange(assign_dev) == \A e \in 0..E-1 : assign_dev[e] >= 0 /\ assign_dev[e] < P
OutOfRangeCount(assign_dev) ==
    Cardinality({e \in 0..E-1 : assign_dev[e] < 0 \/ assign_dev[e] >= P})
Repaired == call = "repair_solution"
Evaluated == call = "evaluate"

\* C3: repair_solution applied to a solution whose evaluate() penalty is zero
\* returns a solution whose penalty is zero (solutions feasible only within the
\* tolerance Eps included).
C3_RepairKeepsZeroPenalty ==
    (Repaired /\ Evaluate(arg_place, arg_assign).penalty = 0)
        => Evaluate(ret_place, ret_assign).penalty = 0

NothingPlaced(place_loc) == \A p \in 0..P-1 : place_loc[p] = 0
RawDistance(assign_dev) ==
    SumOver([e \in 0..E-1 |-> dist[e][assign_dev[e]]], 0..E-1)
\* locations to which some device with a nonzero demand is assigned
LoadedLocations(assign_dev) ==
    {p \in 0..P-1 : \E e \in 0..E-1 :
        /\ assign_dev[e] = p
        /\ demands[e].cpu > 0 \/ demands[e].mem > 0 \/ demands[e].sto > 0}

\* C4 as stated: with nothing placed and every assignment in [0,P), evaluate returns
\* penalty = 1e5 * E, placement_cost = 0 and latency = the sum of the distances.
C4_PenaltyIsCoverageOnly ==
    (Evaluated /\ NothingPlaced(arg_place) /\ InRange(arg_assign))
        => /\ ret_metrics.penalty = CoveragePenalty * E
           /\ ret_metrics.placement_cost = 0
           /\ ret_metrics.latency = RawDistance(arg_assign)

\* C4 amended: with nothing placed and every assignment in [0,P), evaluate returns
\* penalty = 1e5 * E + 1e6 * (number of locations that some device with a nonzero
\* demand is assigned to), placement_cost = 0 and latency = the sum of the distances.
C4_PenaltyCountsLoadedLocations ==
    (Evaluated /\ NothingPlaced(arg_place) /\ InRange(arg_assign))
        => /\ ret_metrics.penalty = CoveragePenalty * E
                  + UnplacedPenalty * Cardinality(LoadedLocations(arg_assign))
           /\ ret_metrics.placement_cost = 0
           /\ ret_metrics.latency = RawDistance(arg_assign)

C4_Witness ==
    /\ Evaluated /\ NothingPlaced(arg_place) /\ InRange(arg_assign)
    /\ P = 2 /\ E = 2
    /\ Cardinality(LoadedLocations(arg_assign)) = 1
    /\ \E e \in 0..E-1 : demands[e].cpu = 0 /\ demands[e].mem = 0 /\ demands[e].sto = 0

\* C6: the number of assignment entries outside [0,P) in the output of
\* repair_solution is at most that number in its input.
C6_OutOfRangeNeverGrows ==
    Repaired => OutOfRangeCount(ret_assign) <= OutOfRangeCount(arg_assign)

C6_Witness ==
    /\ Repaired
    /\ \E e \in 0..E-1 : arg_assign[e] < 0
    /\ \E e \in 0..E-1 : arg_assign[e] >= P
    /\ OutOfRangeCount(ret_assign) = 0

\* Scenario A: one location, one type whose radius covers every device and whose
\* capacity exceeds the total demand on every resource
ScenarioA ==
    /\ P = 1 /\ T = 1
    /\ \A e \in 0..E-1 : dist[e][0] <= cloudlet_types[0].R
    /\ SumOver([e \in 0..E-1 |-> demands[e].cpu], 0..E-1) < cloudlet_types[0].CPU
    /\ SumOver([e \in 0..E-1 |-> demands[e].mem], 0..E-1) < cloudlet_types[0].MEM
    /\ SumOver([e \in 0..E-1 |-> demands[e].sto], 0..E-1) < cloudlet_types[0].STO

\* C7: in Scenario A, repair_solution on any input returns a solution with every
\* device assigned to location 0 and evaluate() penalty 0.
C7_ScenarioARepaired ==
    (Repaired /\ ScenarioA)
        => /\ \A e \in 0..E-1 : ret_assign[e] = 0
           /\ Evaluate(ret_place, ret_assign).penalty = 0

C7_Witness ==
    /\ Repaired /\ ScenarioA /\ E = 2
    /\ arg_place[0] = 0
    /\ arg_assign[0] = -1 /\ arg_assign[1] = P
    /\ \E e \in 0..E-1 : dist[e][0] = cloudlet_types[0].R

\* overage of location p on resource res under (place_loc, assign_dev); 0 if none
Overage(place_loc, assign_dev, p, res) ==
    Max(0, Used(assign_dev, p, res) - CapacityOf(place_loc, p)[res])
Resources == {"cpu", "mem", "sto"}
HasAlternate(place_loc, e, p) == \E q \in SeqRange(Covering(place_loc, e)) : q # p

\* C8: a placed location that is over capacity when repair_solution is called, and
\* has an assigned device with an alternate feasible location, has on return an
\* overage that is not larger than before, on every resource.
C8_OverageNeverGrows ==
    Repaired =>
        \A p \in 0..P-1 :
            ( /\ arg_place[p] > 0
              /\ \E res \in Resources : Overage(arg_place, arg_assign, p, res) > 0
              /\ \E e \in 0..E-1 : arg_assign[e] = p /\ HasAlternate(arg_place, e, p) )
            => \A res \in Resources :
                   /\ ret_place[p] > 0
                   /\ Overage(ret_place, ret_assign, p, res)
                          <= Overage(arg_place, arg_assign, p, res)

\* C10: repair_solution changes the placement vector only by turning an unplaced
\* location into a placed one: a location with a nonzero type keeps it, and a changed
\* location was 0 and is the nearest location of a device with an empty feasible set.
C10_PlacedTypesKept ==
    Repaired =>
        \A p \in 0..P-1 :
            /\ arg_place[p] # 0 => ret_place[p] = arg_place[p]
            /\ ret_place[p] # arg_place[p] =>
                   /\ arg_place[p] = 0
                   /\ \E e \in 0..E-1 : Covering(arg_place, e) = <<>> /\ ArgMin(e) = p

-----------------------------------------------------------------------------
(* HybridFFPSO.nondominated_archive_update *)

\* metrics a dominates metrics b on (placement_cost, latency)
Dominates(a, b) ==
    /\ a.placement_cost <= b.placement_cost
    /\ a.latency <= b.latency
    /\ a.placement_cost < b.placement_cost \/ a.latency < b.latency

\* faulty variant: the entries the candidate dominates are not removed
NondominatedArchiveUpdate_KeepAll(arch, sol, metrics) ==
    IF \E k \in 1..Len(arch) : Dominates(arch[k].metrics, metrics)
    THEN arch
    ELSE Append(arch, [place_loc |-> sol.place_loc, assign_dev |-> sol.assign_dev,
                       metrics |-> metrics])

\* faulty variant: a candidate is discarded as soon as an entry costs no more
NondominatedArchiveUpdate_CostOnly(arch, sol, metrics) ==
    IF \E k \in 1..Len(arch) : arch[k].metrics.placement_cost <= metrics.placement_cost
    THEN arch
    ELSE Append(SelectSeq(arch, LAMBDA entry : ~Dominates(metrics, entry.metrics)),
                [place_loc |-> sol.place_loc, assign_dev |-> sol.assign_dev,
                 metrics |-> metrics])

\* the archive after nondominated_archive_update(sol, metrics)
NondominatedArchiveUpdate(arch, sol, metrics) ==
    IF \E k \in 1..Len(arch) : Dominates(arch[k].metrics, metrics)
    THEN arch
    ELSE Append(SelectSeq(arch, LAMBDA entry : ~Dominates(metrics, entry.metrics)),
                [place_loc |-> sol.place_loc, assign_dev |-> sol.assign_dev,
                 metrics |-> metrics])

-----------------------------------------------------------------------------
(* SpecArchive: any sequence of candidates offered to an empty archive.      *)

NoProblem ==
    /\ P = 0 /\ E = 0 /\ T = 0
    /\ dist = <<>> /\ cloudlet_types = <<>> /\ demands = <<>> /\ placement_cost = <<>>

InitArchive == NoProblem /\ NoCall /\ NoOptimizer

Offer ==
    /\ calls < MaxCalls
    /\ \E c \in 0..MaxObj, l \in 0..MaxObj, tag \in 0..1 :
           LET metrics == [placement_cost |-> c, latency |-> l, penalty |-> 0,
                           fitness |-> Fitness10(c, l, 0)]
               sol == [place_loc |-> <<tag>>, assign_dev |-> <<>>]
           IN /\ archive' = NondominatedArchiveUpdate(archive, sol, metrics)
              /\ offered' = offered \cup {metrics}
    /\ calls' = calls + 1
    /\ UNCHANGED problemVars /\ UNCHANGED callVars /\ UNCHANGED moves
    /\ UNCHANGED <<pop_size, max_iter, population, global_best, global_best_score,
                   evals, sorted_idx, it, i, ii, jj, best_history, pc>>

NextArchive == Offer

SpecArchive == InitArchive /\ [][NextArchive]_vars

\* C1: after every call of nondominated_archive_update the archive holds no two
\* entries of which one is <= the other on both objectives and < on at least one.
C1_ArchiveMutuallyNondominated ==
    \A a, b \in 1..Len(archive) :
        ~( /\ archive[a].metrics.placement_cost <= archive[b].metrics.placement_cost
           /\ archive[a].metrics.latency <= archive[b].metrics.latency
           /\ \/ archive[a].metrics.placement_cost < archive[b].metrics.placement_cost
              \/ archive[a].metrics.latency < archive[b].metrics.latency )

\* an archive of three incomparable entries, reached after an entry was removed
C1_Witness ==
    /\ Len(archive) = 3
    /\ calls = MaxCalls
    /\ \E m \in offered : \A k \in 1..Len(archive) :
           /\ archive[k].metrics # m
           /\ ~Dominates(m, archive[k].metrics)
    /\ \E a, b \in 1..Len(archive) :
           archive[a].metrics.placement_cost < archive[b].metrics.placement_cost

-----------------------------------------------------------------------------
(* HybridFFPSO: Particle, the move operators and run().  The velocity arrays *)
(* v_place and v_assign are never read and are left out.                     *)

\* Particle(place_loc, assign_dev)
Particle(sol) ==
    [place_loc |-> sol.place_loc, assign_dev |-> sol.assign_dev,
     pbest_place |-> sol.place_loc, pbest_assign |-> sol.assign_dev,
     pbest_score |-> inf]

\* the "randomly toggle placement or change type" branch on value v
Toggled(v) == IF v = 0 THEN 1..T ELSE {0} \cup (1..T)

\* every function on 0..n-1 whose value at k is drawn from choices[k]
Draws(n, choices) ==
    {f \in [0..n-1 -> UNION {choices[k] : k \in 0..n-1}] : \A k \in 0..n-1 : f[k] \in choices[k]}

\* faulty variant: the random jump draws a location from 0..P
LocalPsoMoves_JumpInclusive(part, gbest) ==
    LET g_place  == IF gbest # None THEN gbest.place_loc ELSE part.pbest_place
        g_assign == IF gbest # None THEN gbest.assign_dev ELSE part.pbest_assign
        adopted_p == [p \in 0..P-1 |-> {part.place_loc[p], part.pbest_place[p], g_place[p]}]
        place_c == [p \in 0..P-1 |-> adopted_p[p] \cup UNION {Toggled(v) : v \in adopted_p[p]}]
        assign_c == [e \in 0..E-1 |->
                        {part.assign_dev[e], part.pbest_assign[e], g_assign[e]} \cup (0..P)]
    IN {[place_loc |-> pl, assign_dev |-> as] :
            pl \in Draws(P, place_c), as \in Draws(E, assign_c)}

\* every (place_loc, assign_dev) that local_pso_move can leave in part
LocalPsoMoves(part, gbest) ==
    LET g_place  == IF gbest # None THEN gbest.place_loc ELSE part.pbest_place
        g_assign == IF gbest # None THEN gbest.assign_dev ELSE part.pbest_assign
        adopted_p == [p \in 0..P-1 |-> {part.place_loc[p], part.pbest_place[p], g_place[p]}]
        place_c == [p \in 0..P-1 |-> adopted_p[p] \cup UNION {Toggled(v) : v \in adopted_p[p]}]
        assign_c == [e \in 0..E-1 |->
                        {part.assign_dev[e], part.pbest_assign[e], g_assign[e]} \cup (0..P-1)]
    IN {[place_loc |-> pl, assign_dev |-> as] :
            pl \in Draws(P, place_c), as \in Draws(E, assign_c)}

\* every (place_loc, assign_dev) that firefly_move(part, brighter_part) can leave in part
FireflyMoves(part, brighter_part) ==
    LET place_c == [p \in 0..P-1 |-> {part.place_loc[p], brighter_part.place_loc[p]}]
        assign_c == [e \in 0..E-1 |-> {part.assign_dev[e], brighter_part.assign_dev[e]}]
    IN {[place_loc |-> pl, assign_dev |-> as] :
            pl \in Draws(P, place_c), as \in Draws(E, assign_c)}

\* every (place_loc, assign_dev) that mutate can leave in part
Mutations(part) ==
    LET place_c == [p \in 0..P-1 |-> {part.place_loc[p]} \cup Toggled(part.place_loc[p])]
        assign_c == [e \in 0..E-1 |-> {part.assign_dev[e]} \cup (0..P-1)]
    IN {[place_loc |-> pl, assign_dev |-> as] :
            pl \in Draws(P, place_c), as \in Draws(E, assign_c)}

\* sorted(range(n), key=fitness): stable, ascending
RECURSIVE InsertByFitness(_, _, _)
InsertByFitness(x, s, ev) ==
    IF s = <<>> THEN <<x>>
    ELSE IF FitnessLess(ev[x].fitness, ev[Head(s)].fitness) THEN <<x>> \o s
    ELSE <<Head(s)>> \o InsertByFitness(x, Tail(s), ev)

\* faulty variant: the particles are left in index order
SortedIdx_Unsorted(n, ev) == [k \in 1..n |-> k - 1]

RECURSIVE SortedIdx(_, _)
SortedIdx(n, ev) ==
    IF n = 0 THEN <<>> ELSE InsertByFitness(n - 1, SortedIdx(n - 1, ev), ev)

\* faulty variant: the global best is overwritten by every evaluated particle
GlobalBestUpdate_Always(score, best, part, metrics) ==
    [score |-> metrics.fitness,
     best  |-> [place_loc |-> part.place_loc, assign_dev |-> part.assign_dev]]

\* faulty variant: the score is replaced but a snapshot already taken is kept
GlobalBestUpdate_ScoreOnly(score, best, part, metrics) ==
    IF FitnessLess(metrics.fitness, score)
    THEN [score |-> metrics.fitness,
          best  |-> IF best = None
                    THEN [place_loc |-> part.place_loc, assign_dev |-> part.assign_dev]
                    ELSE best]
    ELSE [score |-> score, best |-> best]

\* "update global": the (global_best_score, global_best) after particle part evaluated to metrics
GlobalBestUpdate(score, best, part, metrics) ==
    IF FitnessLess(metrics.fitness, score)
    THEN [score |-> metrics.fitness,
          best  |-> [place_loc |-> part.place_loc, assign_dev |-> part.assign_dev]]
    ELSE [score |-> score, best |-> best]

\* "update personal best"
PersonalBestUpdate(part, metrics) ==
    IF FitnessLess(metrics.fitness, part.pbest_score)
    THEN [part EXCEPT !.pbest_score = metrics.fitness,
                      !.pbest_place = part.place_loc,
                      !.pbest_assign = part.assign_dev]
    ELSE part

-----------------------------------------------------------------------------
(* Spec: construction of the problem and the optimizer, then run().          *)

\* the instances of a run: one device and one type on up to MaxP locations (none
\* included), or one location with up to MaxE devices and MaxT types
InitRun ==
    /\ \/ \E nP \in 0..MaxP : ProblemInit(nP, 1, 1)
       \/ \E nE \in 1..MaxE, nT \in 1..MaxT : ProblemInit(1, nE, nT)
    /\ pop_size \in 0..MaxPop
    /\ max_iter \in 0..MaxIter
    /\ NoCall
    /\ population = <<>> /\ global_best = None /\ global_best_score = inf
    /\ archive = <<>> /\ evals = <<>> /\ sorted_idx = <<>>
    /\ it = 0 /\ i = 0 /\ ii = 0 /\ jj = 0 /\ best_history = <<>>
    /\ offered = {} /\ calls = 0 /\ moves = <<>>
    /\ pc = "new"

\* HybridFFPSO.__init__: random_solution raises when there is nothing to choose from
ConstructRaises ==
    /\ pc = "new"
    /\ pop_size > 0 /\ RandomSolutions = {}
    /\ pc' = "raised"
    /\ UNCHANGED problemVars /\ UNCHANGED callVars /\ UNCHANGED moves
    /\ UNCHANGED <<pop_size, max_iter, population, global_best, global_best_score, archive,
                   evals, sorted_idx, it, i, ii, jj, best_history, offered, calls>>

Construct ==
    /\ pc = "new"
    /\ pop_size = 0 \/ RandomSolutions # {}
    /\ population' \in [0..pop_size-1 -> {Particle(sol) : sol \in RandomSolutions}]
    /\ global_best' = None /\ global_best_score' = inf /\ archive' = <<>>
    /\ pc' = "loop"
    /\ UNCHANGED problemVars /\ UNCHANGED callVars /\ UNCHANGED moves
    /\ UNCHANGED <<pop_size, max_iter, evals, sorted_idx, it, i, ii, jj, best_history,
                   offered, calls>>

\* evals = self.evaluate_population()
EvaluatePopulation ==
    /\ pc = "loop" /\ it < max_iter
    /\ evals' = [k \in 0..pop_size-1 |->
                    Evaluate(population[k].place_loc, population[k].assign_dev)]
    /\ i' = 0
    /\ pc' = "update"
    /\ moves' = <<>>
    /\ UNCHANGED problemVars /\ UNCHANGED callVars
    /\ UNCHANGED <<pop_size, max_iter, population, global_best, global_best_score, archive,
                   sorted_idx, it, ii, jj, best_history, offered, calls>>

\* one iteration of "for i, part in enumerate(self.population)"
UpdateBests ==
    /\ pc = "update" /\ i < pop_size
    /\ LET part == population[i]
           metrics == evals[i]
           g == GlobalBestUpdate(global_best_score, global_best, part, metrics)
       IN /\ population' = [population EXCEPT ![i] = PersonalBestUpdate(part, metrics)]
          /\ global_best_score' = g.score
          /\ global_best' = g.best
          /\ archive' = NondominatedArchiveUpdate(archive, part, metrics)
          /\ offered' = offered \cup {metrics}
    /\ calls' = calls + 1
    /\ i' = i + 1
    /\ UNCHANGED problemVars /\ UNCHANGED callVars /\ UNCHANGED moves
    /\ UNCHANGED <<pop_size, max_iter, evals, sorted_idx, it, ii, jj, best_history, pc>>

\* sorted_idx = sorted(...), and entry to the firefly loops at their first pair
SortByBrightness ==
    /\ pc = "update" /\ i = pop_size
    /\ sorted_idx' = SortedIdx(pop_size, evals)
    /\ ii' = 1 /\ jj' = 0
    /\ pc' = IF pop_size > 1 THEN "firefly" ELSE "pso"
    /\ i' = 0
    /\ UNCHANGED problemVars /\ UNCHANGED callVars /\ UNCHANGED moves
    /\ UNCHANGED <<pop_size, max_iter, population, global_best, global_best_score, archive,
                   evals, it, best_history, offered, calls>>

\* the body of the firefly loops at (ii, jj), jj < ii
FireflyInteraction ==
    /\ pc = "firefly"
    /\ LET fi == sorted_idx[ii + 1]
           fj == sorted_idx[jj + 1]
       IN IF FitnessLess(evals[fj].fitness, evals[fi].fitness)
          THEN /\ \E m \in FireflyMoves(population[fi], population[fj]) :
                      population' = [population EXCEPT ![fi].place_loc = m.place_loc,
                                                       ![fi].assign_dev = m.assign_dev]
               /\ moves' = Append(moves, <<fi, fj>>)
          ELSE /\ population' = population
               /\ moves' = moves
    /\ IF jj + 1 < ii THEN /\ jj' = jj + 1 /\ ii' = ii /\ pc' = pc
       ELSE /\ jj' = 0 /\ ii' = ii + 1
            /\ pc' = IF ii + 1 < pop_size THEN "firefly" ELSE "pso"
    /\ UNCHANGED problemVars /\ UNCHANGED callVars
    /\ UNCHANGED <<pop_size, max_iter, global_best, global_best_score, archive,
                   evals, sorted_idx, it, i, best_history, offered, calls>>

\* self.local_pso_move(part) for part = population[i]
LocalPsoMove ==
    /\ pc = "pso" /\ i < pop_size
    /\ \E m \in LocalPsoMoves(population[i], global_best) :
           population' = [population EXCEPT ![i].place_loc = m.place_loc,
                                            ![i].assign_dev = m.assign_dev]
    /\ pc' = "mutate"
    /\ UNCHANGED problemVars /\ UNCHANGED callVars /\ UNCHANGED moves
    /\ UNCHANGED <<pop_size, max_iter, global_best, global_best_score, archive,
                   evals, sorted_idx, it, i, ii, jj, best_history, offered, calls>>

\* self.mutate(part)
Mutate ==
    /\ pc = "mutate"
    /\ \E m \in Mutations(population[i]) :
           population' = [population EXCEPT ![i].place_loc = m.place_loc,
                                            ![i].assign_dev = m.assign_dev]
    /\ pc' = "repair"
    /\ UNCHANGED problemVars /\ UNCHANGED callVars /\ UNCHANGED moves
    /\ UNCHANGED <<pop_size, max_iter, global_best, global_best_score, archive,
                   evals, sorted_idx, it, i, ii, jj, best_history, offered, calls>>

\* part.place_loc, part.assign_dev = self.problem.repair_solution(...)
Repair ==
    /\ pc = "repair"
    /\ \E r \in RepairSolutions(population[i].place_loc, population[i].assign_dev) :
           population' = [population EXCEPT ![i].place_loc = r.place_loc,
                                            ![i].assign_dev = r.assign_dev]
    /\ i' = i + 1
    /\ pc' = "pso"
    /\ UNCHANGED problemVars /\ UNCHANGED callVars /\ UNCHANGED moves
    /\ UNCHANGED <<pop_size, max_iter, global_best, global_best_score, archive,
                   evals, sorted_idx, it, ii, jj, best_history, offered, calls>>

\* best_history.append(self.global_best_score), end of the generation
RecordBest ==
    /\ pc = "pso" /\ i = pop_size
    /\ best_history' = Append(best_history, global_best_score)
    /\ it' = it + 1
    /\ pc' = "loop"
    /\ UNCHANGED problemVars /\ UNCHANGED callVars /\ UNCHANGED moves
    /\ UNCHANGED <<pop_size, max_iter, population, global_best, global_best_score, archive,
                   evals, sorted_idx, i, ii, jj, offered, calls>>

\* run() returns archive, best_score, best_solution, history
Return ==
    /\ pc = "loop" /\ it >= max_iter
    /\ pc' = "returned"
    /\ UNCHANGED problemVars /\ UNCHANGED callVars /\ UNCHANGED moves
    /\ UNCHANGED <<pop_size, max_iter, population, global_best, global_best_score, archive,
                   evals, sorted_idx, it, i, ii, jj, best_history, offered, calls>>

Next ==
    \/ ConstructRaises \/ Construct
    \/ EvaluatePopulation \/ UpdateBests \/ SortByBrightness \/ FireflyInteraction
    \/ LocalPsoMove \/ Mutate \/ Repair \/ RecordBest \/ Return

Spec == InitRun /\ [][Next]_vars

-----------------------------------------------------------------------------
(* Properties of the optimizer, checked under Spec.                          *)

HistoryNonIncreasing ==
    /\ \A k \in 1..Len(best_history) - 1 :
           ~FitnessLess(best_history[k], best_history[k + 1])
    /\ \A k \in 1..Len(best_history) : ~FitnessLess(best_history[k], global_best_score)

\* a step leaves global_best_score no larger, and replaces the snapshot only by a
\* strictly better one
GlobalBestStep ==
    /\ ~FitnessLess(global_best_score, global_best_score')
    /\ global_best' # global_best => FitnessLess(global_best_score', global_best_score)

\* C2: during run() global_best_score never increases, the history list is
\* non-increasing, and a replaced global-best snapshot never reverts.
C2_GlobalBestNeverIncreases == []HistoryNonIncreasing /\ [][GlobalBestStep]_vars

\* the global best improved strictly from the first generation to the second
C2_Witness ==
    /\ Len(best_history) = 2
    /\ FitnessLess(best_history[2], best_history[1])

ValidSolution(place_loc, assign_dev) ==
    /\ DOMAIN place_loc = 0..P-1
    /\ DOMAIN assign_dev = 0..E-1
    /\ \A p \in 0..P-1 : place_loc[p] \in 0..T
    /\ \A e \in 0..E-1 : assign_dev[e] >= 0 /\ assign_dev[e] < P

\* C5: in every state of a run, every particle's placement vector has its values in
\* {0..T} and its assignment vector in [0,P); so has every personal-best,
\* global-best and archive snapshot.
C5_VectorsInRange ==
    /\ \A k \in DOMAIN population :
           /\ ValidSolution(population[k].place_loc, population[k].assign_dev)
           /\ ValidSolution(population[k].pbest_place, population[k].pbest_assign)
    /\ global_best # None => ValidSolution(global_best.place_loc, global_best.assign_dev)
    /\ \A k \in 1..Len(archive) : ValidSolution(archive[k].place_loc, archive[k].assign_dev)

\* after the swarm move and the mutation of the second generation, a particle that
\* left both its personal best and the global best
C5_Witness ==
    /\ pc = "repair" /\ it = 1 /\ P = 2 /\ pop_size = 2
    /\ global_best # None /\ Len(archive) > 0
    /\ population[i].assign_dev # population[i].pbest_assign
    /\ population[i].assign_dev # global_best.assign_dev
    /\ \A p \in 0..P-1 : population[i].place_loc[p] = T

\* C9: an optimizer is constructed, and run() reached, only with at least one
\* location, pop_size > 0 and max_iter > 0; any other configuration fails at
\* construction.
C9_InvalidConfigRejected ==
    pc \notin {"new", "raised"} => (P > 0 /\ pop_size > 0 /\ max_iter > 0)

-----------------------------------------------------------------------------
(* SpecFirefly: one generation of a population of up to MaxFireflies         *)
(* particles on two locations, so that a particle has several brighter       *)
(* partners.                                                                 *)

MaxFireflies == 3

InitFirefly ==
    /\ ProblemInit(2, 1, 1)
    /\ pop_size \in 2..MaxFireflies
    /\ max_iter = 1
    /\ NoCall
    /\ population = <<>> /\ global_best = None /\ global_best_score = inf
    /\ archive = <<>> /\ evals = <<>> /\ sorted_idx = <<>>
    /\ it = 0 /\ i = 0 /\ ii = 0 /\ jj = 0 /\ best_history = <<>>
    /\ offered = {} /\ calls = 0 /\ moves = <<>>
    /\ pc = "new"

NextFirefly ==
    \/ Construct
    \/ EvaluatePopulation \/ UpdateBests \/ SortByBrightness \/ FireflyInteraction
    \/ LocalPsoMove \/ Mutate \/ Repair \/ RecordBest \/ Return

SpecFirefly == InitFirefly /\ [][NextFirefly]_vars

\* the position of particle k in sorted_idx (0-based rank)
RankOf(k) == CHOOSE r \in 0..pop_size-1 : sorted_idx[r + 1] = k

\* particle j is brighter than particle i by this generation's evaluation
Brighter(fj, fi) == FitnessLess(evals[fj].fitness, evals[fi].fitness)

\* the (ii, jj) that the firefly loops have gone through
Visited(a, b) ==
    \/ pc \in {"pso", "mutate", "repair"} /\ a \in 1..pop_size-1 /\ b \in 0..a-1
    \/ pc = "firefly" /\ (a < ii \/ (a = ii /\ b < jj)) /\ a \in 1..pop_size-1 /\ b \in 0..a-1

\* sorted_idx is a permutation of the particles in ascending order of fitness
RankedAscending ==
    /\ Len(sorted_idx) = pop_size
    /\ \A k \in 0..pop_size-1 : \E r \in 1..pop_size : sorted_idx[r] = k
    /\ \A r \in 1..pop_size-1 : ~Brighter(sorted_idx[r + 1], sorted_idx[r])

\* the calls of firefly_move made so far in this generation are exactly those of the
\* pairs gone through in which j is brighter; after the phase, those of every pair
\* of particles in which j is brighter; and for each i in rank order of j
FireflyPairs ==
    pc \in {"firefly", "pso", "mutate", "repair"} =>
        /\ RankedAscending
        /\ SeqRange(moves) =
               {m \in (0..pop_size-1) \X (0..pop_size-1) :
                   Visited(RankOf(m[1]), RankOf(m[2])) /\ Brighter(m[2], m[1])}
        /\ pc # "firefly" =>
               SeqRange(moves) = {m \in (0..pop_size-1) \X (0..pop_size-1) :
                                     Brighter(m[2], m[1])}
        /\ \A k, l \in 1..Len(moves) :
               k < l => /\ moves[k] # moves[l]
                        /\ RankOf(moves[k][1]) <= RankOf(moves[l][1])
                        /\ moves[k][1] = moves[l][1] =>
                               RankOf(moves[k][2]) < RankOf(moves[l][2])

\* a step of the firefly phase writes the current vectors of particle i only, and
\* never those of the top-ranked particle
FireflyStep ==
    pc = "firefly" =>
        /\ \A k \in 0..pop_size-1 :
               /\ k # sorted_idx[ii + 1] => population'[k] = population[k]
               /\ population'[k].pbest_place = population[k].pbest_place
               /\ population'[k].pbest_assign = population[k].pbest_assign
               /\ population'[k].pbest_score = population[k].pbest_score
        /\ population'[sorted_idx[1]] = population[sorted_idx[1]]
        /\ population' # population => moves' = Append(moves, <<sorted_idx[ii + 1], sorted_idx[jj + 1]>>)

\* C11: in the firefly phase of a generation, firefly_move(i, j) is called for every
\* ordered pair of particles in which j ranks strictly ahead of i by the fitness of
\* this generation's evaluation (equal fitness is equal rank) and for no other pair,
\* partners in rank order; the move writes only i's vectors, and the top-ranked
\* particle is not modified.
C11_FireflyPairsByRank == []FireflyPairs /\ [][FireflyStep]_vars

\* three particles after the phase: the two brightest tie, the third moved toward
\* both in rank order and now differs from what was evaluated
C11_Witness ==
    /\ pc = "pso" /\ pop_size = 3 /\ i = 0
    /\ Len(moves) = 2
    /\ moves[1][1] = 0 /\ moves[2][1] = 0
    /\ moves[1][2] = 1 /\ moves[2][2] = 2
    /\ ~Brighter(1, 2) /\ ~Brighter(2, 1)
    /\ Evaluate(population[0].place_loc, population[0].assign_dev) # evals[0]

-----------------------------------------------------------------------------
(* The result of run(), checked under Spec.                                  *)

\* run() has returned from a run of at least one particle and one generation
RunEnded == pc = "returned" /\ pop_size >= 1 /\ max_iter >= 1

\* best_score is the least fitness of all the evaluations made (each one was passed,
\* with its metrics, through the update loop), and best_solution evaluates to it
BestIsMinimum ==
    RunEnded =>
        /\ global_best # None
        /\ \E m \in offered : m.fitness = global_best_score
        /\ \A m \in offered : ~FitnessLess(m.fitness, global_best_score)
        /\ Evaluate(global_best.place_loc, global_best.assign_dev).fitness
               = global_best_score

\* a step of the firefly, swarm, mutation or repair phase leaves the global-best
\* snapshot, every personal-best snapshot and the archive as they were
SnapshotsKept ==
    pc \in {"firefly", "pso", "mutate", "repair"} =>
        /\ global_best' = global_best
        /\ global_best_score' = global_best_score
        /\ archive' = archive
        /\ \A k \in 0..pop_size-1 :
               /\ population'[k].pbest_place = population[k].pbest_place
               /\ population'[k].pbest_assign = population[k].pbest_assign
               /\ population'[k].pbest_score = population[k].pbest_score

\* C12: at the end of run() with pop_size >= 1 and max_iter >= 1, best_score is the
\* minimum fitness over all evaluations of all particles in all generations and
\* evaluate(best_solution).fitness = best_score; the firefly, swarm, mutation and
\* repair phases never alter the global-best snapshot, a personal-best snapshot or
\* an archive entry.
C12_BestIsMinimumOfEvaluations == []BestIsMinimum /\ [][SnapshotsKept]_vars

\* a returned run of two particles whose best was found in the second generation,
\* by a particle that has moved away from it since
C12_Witness ==
    /\ RunEnded /\ pop_size = 2 /\ max_iter = 2
    /\ FitnessLess(best_history[2], best_history[1])
    /\ Cardinality(offered) >= 3
    /\ \A k \in 0..pop_size-1 :
           /\ <<population[k].place_loc, population[k].assign_dev>>
                  # <<global_best.place_loc, global_best.assign_dev>>
           /\ population[k].pbest_score # inf

-----------------------------------------------------------------------------
(* The archive as a Pareto front, checked under SpecArchive.                 *)

SameObjectives(a, b) == a.placement_cost = b.placement_cost /\ a.latency = b.latency

\* every metrics passed to nondominated_archive_update has an entry with the same
\* objectives, or an entry that dominates it
OfferedAreCovered ==
    \A m \in offered :
        \E k \in 1..Len(archive) :
            SameObjectives(archive[k].metrics, m) \/ Dominates(archive[k].metrics, m)

\* how many times entry occurs in arch
CountOf(arch, entry) == Cardinality({k \in 1..Len(arch) : arch[k] = entry})

\* a step that leaves fewer copies of an entry in the archive has appended a
\* candidate that dominates that entry
RemovedOnlyWhenDominated ==
    \A k \in 1..Len(archive) :
        CountOf(archive', archive[k]) < CountOf(archive, archive[k]) =>
            /\ Len(archive') > 0
            /\ Dominates(archive'[Len(archive')].metrics, archive[k].metrics)
            /\ offered' = offered \cup {archive'[Len(archive')].metrics}

\* C13: at every point, each solution that has been passed to
\* nondominated_archive_update has an archive entry with the same (placement_cost,
\* latency) or is Pareto-dominated by an entry of the archive; an entry is removed
\* only when a newly inserted candidate dominates it.
C13_ArchiveIsParetoFront == []OfferedAreCovered /\ [][RemovedOnlyWhenDominated]_vars

\* after MaxCalls calls with different metrics, two incomparable entries remain; the
\* other two candidates have no entry, and one of them is dominated by the second
\* entry only
C13_Witness ==
    /\ calls = MaxCalls /\ Len(archive) = 2
    /\ Cardinality(offered) = MaxCalls
    /\ ~Dominates(archive[1].metrics, archive[2].metrics)
    /\ \E m \in offered :
           /\ \A k \in 1..Len(archive) : ~SameObjectives(archive[k].metrics, m)
           /\ Dominates(archive[2].metrics, m) /\ ~Dominates(archive[1].metrics, m)

-----------------------------------------------------------------------------
(* Coverage after repair_solution, checked under SpecProblem.                *)

\* device e had a nonempty feasible set on entry, or some catalog type's radius
\* covers its distance to its nearest location
Coverable(e) ==
    \/ Covering(arg_place, e) # <<>>
    \/ \E t \in 0..T-1 : dist[e][ArgMin(e)] <= cloudlet_types[t].R

\* device e is assigned to a location whose placed type has a radius of at least
\* the device's distance to it
Covered(place_loc, assign_dev, e) ==
    LET p == assign_dev[e] IN
    /\ p >= 0 /\ p < P
    /\ place_loc[p] > 0
    /\ cloudlet_types[place_loc[p] - 1].R >= dist[e][p]

\* C14: after repair_solution returns, every device that had a nonempty feasible set
\* on entry, or whose distance to its nearest location is covered by some catalog
\* type's radius, is assigned to a location whose output placement is a type with
\* radius >= the device's distance to that location.
C14_CoverableDevicesCovered ==
    Repaired => \A e \in 0..E-1 : Coverable(e) => Covered(ret_place, ret_assign, e)

====
